---- MODULE Spec2Model ----
(***************************************************************************)
(* A model of hsbteam/rest_client: the dispatcher RestClient.Do, the       *)
(* endpoint builder AppRestBuild.BuildRequest running in its goroutine on  *)
(* a transport shared by all calls, and the RestResult read interface      *)
(* (Read, JsonResult) with the RestEvent callbacks each of them fires.     *)
(***************************************************************************)
EXTENDS Integers, Sequences, FiniteSets, TLC

\* ------------------------------------------------------------------ bounds

\* Concurrent calls (result slots) of the model.
NCalls == 2
\* Largest buffer a caller passes to Read.
MaxBuf == 2
\* Caller operations (Read, JsonResult) on one Result.
MaxOps == 3
\* Reads the HTTP transport makes of a POST body while sending it.
MaxReqReads == 1

Calls == 1..NCalls

\* --------------------------------------------------------------- input sets

\* ResponseHeaderTimeout of the shared transport before any call.
TransportTimeouts == {30}
\* AppRestBuild.Timeout of an operation: 0 is "no override".
BuildTimeouts == {0, 100}
HttpMethods == {"GET", "POST"}

\* A body is a sequence of JSON members of the "result" envelope (or other data).
Tok(k, v) == [k |-> k, v |-> v]
Bodies ==
  { <<>>,
    <<Tok("data", "x")>>,
    <<Tok("code", "200"), Tok("state", "ok")>>,
    <<Tok("code", "200"), Tok("state", "ok"), Tok("data", "x")>>,
    <<Tok("code", "200"), Tok("state", "fail")>>,
    <<Tok("code", "500"), Tok("state", "fail"), Tok("message", "bad id")>> }

\* ------------------------------------------------------------------- errors

Lit(s) == Tok("lit", s)
NilErr == [type |-> "nil", Code |-> "", SubCode |-> "", Msg |-> <<>>]
EOF == [type |-> "EOF", Code |-> "", SubCode |-> "", Msg |-> <<Lit("EOF")>>]
\* An error value made outside the package (by the Api, encoding/json, net/http).
ExtErr(what) == [type |-> "error", Code |-> "", SubCode |-> "", Msg |-> <<Lit(what)>>]

NewRestClientError(code, msg) ==
  [type |-> "RestClientError", Code |-> code, SubCode |-> "", Msg |-> <<Lit(msg)>>]

NewAppClientError(code, subCode, msg) ==
  [type |-> "AppClientError", Code |-> code, SubCode |-> subCode, Msg |-> msg]

\* ------------------------------------------------------------------- events

\* A callback delivered to a RestEvent: its name and its error argument.
Cb(name, err) == [cb |-> name, err |-> err]

\* ------------------------------------------------------------------ results

NoResult == [event |-> "nil", build |-> "nil", response |-> FALSE, body |-> <<>>,
             bodyReadOffset |-> -2, err |-> NilErr]

\* event: "nil", or "event": a RestEvent (the one EventCreate made, or a
\* &RestEventNoop{}), whose callbacks the model records.
NewRestResultFromError(err, event) ==
  [result |-> [event |-> event, build |-> "nil", response |-> FALSE, body |-> <<>>,
               bodyReadOffset |-> -1, err |-> err],
   fired |-> IF event # "nil" THEN <<Cb("ResponseFinish", err)>> ELSE <<>>]

NewRestResult(build, response, event) ==
  [result |-> [event |-> event, build |-> build, response |-> response, body |-> <<>>,
               bodyReadOffset |-> -1, err |-> NilErr],
   fired |-> IF event # "nil" /\ response THEN <<Cb("ResponseHeader", NilErr)>> ELSE <<>>]

NewRestBodyResult(build, body, response, event) ==
  [result |-> [event |-> event, build |-> build, response |-> response, body |-> body,
               bodyReadOffset |-> 0, err |-> NilErr],
   fired |-> IF event # "nil"
             THEN (IF response THEN <<Cb("ResponseHeader", NilErr)>> ELSE <<>>)
                  \o <<Cb("ResponseFinish", NilErr)>>
             ELSE <<>>]

\* ----------------------------------------------------------------- registry

\* client.config: the registered configs by name. "product" has an EventCreate,
\* "plain" has none, "other" is a RestConfig that is not an *AppRestConfig.
Registry ==
  [product |-> [type |-> "AppRestConfig", EventCreate |-> TRUE,
                AppKey |-> "hjx", AppSecret |-> "key"],
   plain   |-> [type |-> "AppRestConfig", EventCreate |-> FALSE,
                AppKey |-> "", AppSecret |-> "key"],
   other   |-> [type |-> "OtherConfig", EventCreate |-> FALSE,
                AppKey |-> "", AppSecret |-> ""]]

\* What Api.ConfigName returns: a name, or an error. "missing" is not registered.
ConfigNameResults ==
  { [name |-> n, err |-> NilErr] : n \in {"product", "plain", "other", "missing"} }
  \cup { [name |-> "", err |-> ExtErr("config name")] }

NoConfig == [type |-> "nil", EventCreate |-> FALSE, AppKey |-> "", AppSecret |-> ""]

\* GetConfig without the check of the lookup ("ok"): an unregistered name gives
\* the zero config and no error.
GetConfigUnchecked(cn) ==
  IF cn.err # NilErr THEN [config |-> NoConfig, err |-> cn.err]
  ELSE IF cn.name \notin DOMAIN Registry THEN [config |-> NoConfig, err |-> NilErr]
  ELSE [config |-> Registry[cn.name], err |-> NilErr]

GetConfig(cn) ==
  IF cn.err # NilErr THEN [config |-> NoConfig, err |-> cn.err]
  ELSE IF cn.name \notin DOMAIN Registry
       THEN [config |-> NoConfig,
             err |-> NewRestClientError("1", "rest config is exits:" \o cn.name)]
       ELSE [config |-> Registry[cn.name], err |-> NilErr]

\* --------------------------------------------------------- AppRestParamSign

\* The token argument, a *string: nil, or a string, which may be empty.
NoToken == [set |-> FALSE, v |-> ""]
TokenOf(v) == [set |-> TRUE, v |-> v]
TokenValues == {"", "tok"}

Timestamp == "2006-01-02 15:04:05"
Methods == {"", "add"}

\* url.QueryEscape, on the values used here: letters, digits, "." and "-" stay,
\* a space becomes "+", any other byte its %XX.
QueryEscape(s) ==
  CASE s = "{}" -> "%7B%7D"
    [] s = Timestamp -> "2006-01-02+15%3A04%3A05"
    [] OTHER -> s

\* The keys a request may have, in the order of sort.Strings.
KeyOrder == <<"app", "content", "method", "sign", "timestamp", "token", "version">>

\* sort.Sort(sort.StringSlice(keys)), and the sort by key of url.Values.Encode.
SortedKeys(m) == SelectSeq(KeyOrder, LAMBDA k : k \in DOMAIN m)

\* url.Values.Encode: key=value of every key, escaped, in key order, joined by "&".
RECURSIVE EncodeKeys(_, _)
EncodeKeys(m, keys) ==
  IF keys = <<>> THEN ""
  ELSE Head(keys) \o "=" \o QueryEscape(m[Head(keys)])
       \o (IF Tail(keys) = <<>> THEN "" ELSE "&" \o EncodeKeys(m, Tail(keys)))

Encode(m) == EncodeKeys(m, SortedKeys(m))

\* fmt.Sprintf("%x", md5.Sum(data)): the digest, kept as a term of what is hashed,
\* so that it is the same for the same bytes only.
Md5Hex(data) == "md5(" \o data \o ")"

\* The map of a field for every key of keys.
ParamMap(keys, version, appKey, method, timestamp, content, token) ==
  [k \in keys |->
     CASE k = "app" -> appKey
       [] k = "version" -> version
       [] k = "timestamp" -> timestamp
       [] k = "content" -> content
       [] k = "method" -> method
       [] k = "token" -> token.v]

\* A map to sign that leaves out every field that is empty.
SignedParamsNonEmpty(version, appKey, method, timestamp, content, token) ==
  LET all == ParamMap({"app", "version", "timestamp", "content", "method", "token"},
                      version, appKey, method, timestamp, content, token)
  IN ParamMap({k \in DOMAIN all : all[k] # "" /\ (k = "token" => token.set)},
              version, appKey, method, timestamp, content, token)

\* Lines 103-114: reqParam of AppRestParamSign, the fields it signs.
SignedParams(version, appKey, method, timestamp, content, token) ==
  ParamMap({"app", "version", "timestamp", "content"}
             \cup (IF method # "" THEN {"method"} ELSE {})
             \cup (IF token.set THEN {"token"} ELSE {}),
           version, appKey, method, timestamp, content, token)

\* Lines 102-127: AppRestParamSign
AppRestParamSign(version, appKey, method, timestamp, content, appSecret, token) ==
  Md5Hex(Encode(SignedParams(version, appKey, method, timestamp, content, token))
         \o appSecret)

\* The arguments of a call of AppRestParamSign.
SignArgs ==
  [version : {"1.0", ""}, appKey : {"hjx", ""}, method : Methods,
   timestamp : {Timestamp, ""}, content : {"{}", ""}, appSecret : {"key"},
   token : {NoToken} \cup {TokenOf(v) : v \in TokenValues}]

\* A call of AppRestParamSign with the arguments a, and what it returned.
SignCall(a) ==
  [args |-> a,
   out |-> AppRestParamSign(a.version, a.appKey, a.method, a.timestamp, a.content,
                            a.appSecret, a.token)]
NoSign ==
  [args |-> [version |-> "", appKey |-> "", method |-> "", timestamp |-> "",
             content |-> "", appSecret |-> "", token |-> NoToken],
   out |-> ""]

\* A request that sends the token field only when the token is not empty.
WireParamsDropEmptyToken(a, dataSign) ==
  [k \in {"app", "version", "timestamp", "content", "sign"}
         \cup (IF a.method # "" THEN {"method"} ELSE {})
         \cup (IF a.token.set /\ a.token.v # "" THEN {"token"} ELSE {}) |->
     IF k = "sign" THEN dataSign
     ELSE ParamMap({k}, a.version, a.appKey, a.method, a.timestamp, a.content,
                   a.token)[k]]

\* Lines 169-181: reqParam of BuildRequest, the fields of the request, for the
\* arguments a it gave AppRestParamSign and the dataSign it got.
WireParams(a, dataSign) ==
  [k \in {"app", "version", "timestamp", "content", "sign"}
         \cup (IF a.method # "" THEN {"method"} ELSE {})
         \cup (IF a.token.set THEN {"token"} ELSE {}) |->
     IF k = "sign" THEN dataSign
     ELSE ParamMap({k}, a.version, a.appKey, a.method, a.timestamp, a.content,
                   a.token)[k]]
NoParams == [k \in {} |-> ""]

\* -------------------------------------------------------------------- state

VARIABLES
  transport,   \* transport.ResponseHeaderTimeout of the shared http.Transport
  origTimeout, \* its value before the first call
  call,        \* per call: the position and locals of Do, its goroutine and BuildRequest
  chan,        \* per call: the channel rc made by Do
  result,      \* per call: the RestResult object made for it
  respBody,    \* per call: the unread rest of the live response body
  events,      \* per call: the callbacks delivered to its event object, in order
  cons         \* per call: the caller's side: receives, reads and what they returned

vars == <<transport, origTimeout, call, chan, result, respBody, events, cons>>

NoRet == [op |-> "none", n |-> 0, err |-> NilErr, data |-> <<>>]

\* route: the branch Do took; input: the failing input of BuildRequest, if any;
\* issued: ResponseHeaderTimeout as the request was issued (-1: none was);
\* wrote: BuildRequest wrote the transport; panicked: BuildRequest panicked;
\* config: the name of the config BuildRequest resolved; sign: its call of
\* AppRestParamSign (or the caller's own); wire: the fields of its request.
IdleCall == [pc |-> "idle", route |-> "", Timeout |-> 0, HttpMethod |-> "GET",
             headerTime |-> 0, event |-> "nil", input |-> "", issued |-> -1,
             wrote |-> FALSE, panicked |-> FALSE,
             config |-> "", sign |-> NoSign, wire |-> NoParams]
\* A channel made without a slot: a send on it waits for a receiver.
EmptyChanUnbuffered == [buf |-> 0, cap |-> 0, closed |-> FALSE, sent |-> 0]
\* Line 129: rc := make(chan RestResult, 1), of one slot (cap).
EmptyChan == [buf |-> 0, cap |-> 1, closed |-> FALSE, sent |-> 0]
NoBody == [rest |-> <<>>, eof |-> FALSE, closed |-> FALSE]
\* recvd: Results received from rc; ops, jsons: calls of Read and JsonResult, and
\* of JsonResult; last: what the last of them returned; acc: the bytes the Reads
\* returned so far; panicked: a call panicked in the caller.
IdleCons == [recvd |-> 0, sawClosed |-> FALSE, ops |-> 0, jsons |-> 0, last |-> NoRet,
             acc |-> <<>>, panicked |-> FALSE]

Init ==
  /\ transport \in TransportTimeouts
  /\ origTimeout = transport
  /\ call = [c \in Calls |-> IdleCall]
  /\ chan = [c \in Calls |-> EmptyChan]
  /\ result = [c \in Calls |-> NoResult]
  /\ respBody = [c \in Calls |-> NoBody]
  /\ events = [c \in Calls |-> <<>>]
  /\ cons = [c \in Calls |-> IdleCons]

\* ----------------------------------------------------------- RestClient.Do

\* Do with ConfigBuilds failing: the error Result is sent and rc is returned.
DoConfigBuildsErr(c) ==
  /\ call[c].pc = "idle"
  /\ result' = [result EXCEPT ![c] =
                  NewRestResultFromError(ExtErr("config builds"), "nil").result]
  /\ chan[c].buf < chan[c].cap
  /\ chan' = [chan EXCEPT ![c].buf = @ + 1, ![c].sent = @ + 1]
  /\ call' = [call EXCEPT ![c].pc = "done", ![c].route = "configBuildsErr"]
  /\ UNCHANGED <<transport, origTimeout, respBody, events, cons>>

\* Do starting the goroutine also for a key that is not in the table.
DoNotFoundSpawns(c) ==
  /\ call[c].pc = "idle"
  /\ call' = [call EXCEPT ![c].pc = "b1", ![c].route = "notFound"]
  /\ UNCHANGED <<transport, origTimeout, chan, result, respBody, events, cons>>

\* Do with a key that is not in the table.
DoNotFound(c) ==
  /\ call[c].pc = "idle"
  /\ result' = [result EXCEPT ![c] =
       NewRestResultFromError(NewRestClientError("2", "not find rest api"), "nil").result]
  /\ chan[c].buf < chan[c].cap
  /\ chan' = [chan EXCEPT ![c].buf = @ + 1, ![c].sent = @ + 1, ![c].closed = TRUE]
  /\ call' = [call EXCEPT ![c].pc = "done", ![c].route = "notFound"]
  /\ UNCHANGED <<transport, origTimeout, respBody, events, cons>>

\* Do with a key of the table: the goroutine is started and rc returned.
DoSpawn(c) ==
  /\ call[c].pc = "idle"
  /\ \E t \in BuildTimeouts, m \in HttpMethods :
       call' = [call EXCEPT ![c].pc = "b1", ![c].Timeout = t, ![c].HttpMethod = m,
                            ![c].route = "spawned"]
  /\ UNCHANGED <<transport, origTimeout, chan, result, respBody, events, cons>>

\* -------------------------------------------- AppRestBuild.BuildRequest

\* BuildRequest returns: its locals are gone and the goroutine goes on to send.
Returned(c) ==
  [call EXCEPT ![c].pc = "send", ![c].Timeout = 0, ![c].HttpMethod = "GET",
               ![c].headerTime = 0, ![c].event = "nil",
               ![c].config = "", ![c].sign = NoSign, ![c].wire = NoParams]

\* The Result BuildRequest made, and the callbacks making it fired.
Return(c, made) ==
  /\ result' = [result EXCEPT ![c] = made.result]
  /\ events' = [events EXCEPT ![c] = @ \o made.fired]

\* The failing input a ConfigName result is, "" if the config it names is usable.
ConfigInput(cn) ==
  IF cn.err # NilErr THEN "configName"
  ELSE IF cn.name = "missing" THEN "notRegistered"
  ELSE IF cn.name = "other" THEN "wrongType"
  ELSE ""

\* Lines 131-148: the config is resolved, the event made and the shared
\* transport's ResponseHeaderTimeout read into headerTime.
BuildResolve(c) ==
  /\ call[c].pc = "b1"
  /\ \E cn \in ConfigNameResults :
       LET g == GetConfig(cn) IN
       IF g.err # NilErr
       THEN /\ Return(c, NewRestResultFromError(g.err, "event"))
            /\ call' = [Returned(c) EXCEPT ![c].input = ConfigInput(cn)]
       ELSE IF g.config.type # "AppRestConfig"
       THEN /\ Return(c, NewRestResultFromError(
                           NewRestClientError("11", "build config is wrong"), "event"))
            /\ call' = [Returned(c) EXCEPT ![c].input = ConfigInput(cn)]
       ELSE /\ call' = [call EXCEPT ![c].pc = "b2",
                          ![c].config = cn.name,
                          ![c].event = "event",
                          ![c].headerTime = transport]
            /\ UNCHANGED <<result, events>>
  /\ UNCHANGED <<transport, origTimeout, chan, respBody, cons>>

\* What the Api is: whether it is a RestTokenApi (and what Token returns) and
\* whether it is an AppRestRequestId.
TokenApis == {"none", "ok", "err"}

\* Lines 153-218: the parameters are serialized, the token fetched, the request
\* signed and built, and the timeout override written to the shared transport.
\* A nil req (http.NewRequest failed) is dereferenced by the header writes.
BuildPrepare(c) ==
  /\ call[c].pc = "b2"
  /\ \E marshalOk \in BOOLEAN, tokenApi \in TokenApis, newReqOk \in BOOLEAN,
        requestId \in BOOLEAN, method \in Methods, tokenTmp \in TokenValues :
       LET ev == call[c].event
           start == <<Cb("RequestStart", NilErr)>>
           config == Registry[call[c].config]
           signed == SignCall([version |-> "1.0", appKey |-> config.AppKey,
                               method |-> method, timestamp |-> Timestamp,
                               content |-> "{}", appSecret |-> config.AppSecret,
                               token |-> IF tokenApi = "ok" THEN TokenOf(tokenTmp)
                                         ELSE NoToken])
       IN
       IF ~marshalOk
       THEN /\ Return(c, NewRestResultFromError(ExtErr("json marshal"), ev))
            /\ call' = [Returned(c) EXCEPT ![c].input = "marshal"]
            /\ UNCHANGED transport
       ELSE IF tokenApi = "err"
       THEN /\ Return(c, NewRestResultFromError(ExtErr("token"), ev))
            /\ call' = [Returned(c) EXCEPT ![c].input = "token"]
            /\ UNCHANGED transport
       ELSE IF ~newReqOk /\ (requestId \/ call[c].HttpMethod = "POST")
       THEN /\ events' = [events EXCEPT ![c] = @ \o start]
            /\ call' = [Returned(c) EXCEPT ![c].pc = "rsend", ![c].panicked = TRUE,
                                            ![c].input = "newRequest"]
            /\ UNCHANGED <<transport, result>>
       ELSE IF ~newReqOk
       THEN /\ Return(c, [result |-> NewRestResultFromError(ExtErr("new request"), ev).result,
                          fired |-> start \o
                                    NewRestResultFromError(ExtErr("new request"), ev).fired])
            /\ call' = [Returned(c) EXCEPT ![c].input = "newRequest"]
            /\ UNCHANGED transport
       ELSE /\ events' = [events EXCEPT ![c] = @ \o start]
            /\ transport' = IF call[c].Timeout > 0 THEN call[c].Timeout ELSE transport
            /\ call' = [call EXCEPT ![c].pc = "b3",
                                    ![c].wrote = (call[c].Timeout > 0),
                                    ![c].sign = signed,
                                    ![c].wire = WireParams(signed.args, signed.out)]
            /\ UNCHANGED result
  /\ UNCHANGED <<origTimeout, chan, respBody, cons>>

\* RestRequestReader.Read: n bytes read from the wrapped reader.
RestRequestReaderRead(event, n) ==
  IF event # "nil" /\ n > 0 THEN <<Cb("RequestRead", NilErr)>> ELSE <<>>

RECURSIVE RequestReads(_, _)
RequestReads(event, ns) ==
  IF ns = <<>> THEN <<>>
  ELSE RestRequestReaderRead(event, Head(ns)) \o RequestReads(event, Tail(ns))

\* Line 222, first half: httpClient.Do issues the request on the shared transport,
\* whose ResponseHeaderTimeout it uses, reading the body of a POST through the
\* RestRequestReader.
BuildIssue(c) ==
  /\ call[c].pc = "b3"
  /\ \E k \in 0..MaxReqReads : \E ns \in [1..k -> 0..1] :
       events' = [events EXCEPT ![c] =
                    @ \o (IF call[c].HttpMethod = "POST"
                          THEN RequestReads(call[c].event, ns) ELSE <<>>)]
  /\ call' = [call EXCEPT ![c].pc = "b4", ![c].issued = transport]
  /\ UNCHANGED <<transport, origTimeout, chan, result, respBody, cons>>

\* Lines 222-230: httpClient.Do returns, the timeout is written back and the
\* Result made.
BuildFinish(c) ==
  /\ call[c].pc = "b4"
  /\ transport' = IF call[c].Timeout > 0 THEN call[c].headerTime ELSE transport
  /\ \/ /\ Return(c, NewRestResultFromError(ExtErr("http do"), call[c].event))
        /\ UNCHANGED respBody
     \/ \E body \in Bodies :
          /\ Return(c, NewRestResult("app", TRUE, call[c].event))
          /\ respBody' = [respBody EXCEPT ![c] = [rest |-> body, eof |-> FALSE, closed |-> FALSE]]
  /\ call' = [Returned(c) EXCEPT ![c].wrote = (@ \/ call[c].Timeout > 0)]
  /\ UNCHANGED <<origTimeout, chan, cons>>

\* A method of the Api or of the RestEvent that BuildRequest calls panics: before
\* the request is built (ConfigName, EventCreate, Token, RequestStart), or as the
\* Result is made after the timeout is written back (ResponseHeader, ResponseFinish).
BuildPanic(c) ==
  /\ call[c].pc \in {"b1", "b2", "b4"}
  /\ transport' = IF call[c].pc = "b4" /\ call[c].Timeout > 0
                  THEN call[c].headerTime ELSE transport
  /\ call' = [Returned(c) EXCEPT ![c].pc = "rsend", ![c].panicked = TRUE,
                                  ![c].input = "panic"]
  /\ UNCHANGED <<origTimeout, chan, result, respBody, events, cons>>

\* ------------------------------------------------- the goroutine of Do

\* Line 149: rc <- res (rc has one slot).
Send(c) ==
  /\ call[c].pc = "send"
  /\ chan[c].buf < chan[c].cap
  /\ chan' = [chan EXCEPT ![c].buf = @ + 1, ![c].sent = @ + 1]
  /\ call' = [call EXCEPT ![c].pc = "close"]
  /\ UNCHANGED <<transport, origTimeout, result, respBody, events, cons>>

\* Line 150: close(rc).
Close(c) ==
  /\ call[c].pc = "close"
  /\ chan' = [chan EXCEPT ![c].closed = TRUE]
  /\ call' = [call EXCEPT ![c].pc = "done"]
  /\ UNCHANGED <<transport, origTimeout, result, respBody, events, cons>>

\* A deferred function that recovers the panic and sends nothing.
RecoverSendNothing(c) ==
  /\ call[c].pc = "rsend"
  /\ call' = [call EXCEPT ![c].pc = "rclose"]
  /\ UNCHANGED <<transport, origTimeout, chan, result, respBody, events, cons>>

\* Lines 142-144: the deferred function recovers the panic and sends an error Result.
RecoverSend(c) ==
  /\ call[c].pc = "rsend"
  /\ chan[c].buf < chan[c].cap
  /\ result' = [result EXCEPT ![c] =
       NewRestResultFromError(NewRestClientError("3", "panic"), "nil").result]
  /\ chan' = [chan EXCEPT ![c].buf = @ + 1, ![c].sent = @ + 1]
  /\ call' = [call EXCEPT ![c].pc = "rclose"]
  /\ UNCHANGED <<transport, origTimeout, respBody, events, cons>>

\* Line 145: close(rc) in the deferred function.
RecoverClose(c) ==
  /\ call[c].pc = "rclose"
  /\ chan' = [chan EXCEPT ![c].closed = TRUE]
  /\ call' = [call EXCEPT ![c].pc = "done"]
  /\ UNCHANGED <<transport, origTimeout, result, respBody, events, cons>>

\* --------------------------------------------------------- RestResult.Read

Min(a, b) == IF a < b THEN a ELSE b
Drop(sq, n) == SubSeq(sq, n + 1, Len(sq))

\* What res.response.Body.Read(p) may return with len(p) = pLen: some of the
\* unread bytes, the last of them with or without io.EOF, io.EOF alone once the
\* body has ended, or a read error after some bytes.
BodyReadOutcomes(rb, pLen) ==
  IF rb.eof THEN {[n |-> 0, err |-> EOF]}
  ELSE LET rem == Len(rb.rest)
           m == Min(pLen, rem)
       IN { [n |-> n, err |-> NilErr] : n \in (IF pLen = 0 THEN {0} ELSE 1..m) }
          \cup (IF rem <= pLen THEN {[n |-> rem, err |-> EOF]} ELSE {})
          \cup { [n |-> n, err |-> ExtErr("body read")] : n \in 0..m }

NoOutcome == [n |-> 0, err |-> NilErr]

\* Whether Read reaches line 258 and reads the response body.
ReadsBody(res) == res.err = NilErr /\ res.bodyReadOffset < 0 /\ res.response

\* What Read returns: the Result and the body after it, n and err, the bytes put
\* in p, the callbacks fired, and whether it panicked instead.
ReadRet(res, rb, n, err, data, fired, panic) ==
  [res |-> res, rb |-> rb, n |-> n, err |-> err, data |-> data, fired |-> fired,
   panic |-> panic]

\* ReadBuffered with "sLen >= pLen" for "sLen > pLen": a buffer the rest fits
\* exactly is filled without io.EOF.
ReadBufferedOffByOne(res, rb, pLen) ==
  LET sLen == Len(res.body) - res.bodyReadOffset IN
  IF sLen = 0 THEN ReadRet(res, rb, 0, EOF, <<>>, <<>>, FALSE)
  ELSE IF sLen >= pLen
  THEN ReadRet([res EXCEPT !.bodyReadOffset = @ + pLen], rb, pLen, NilErr,
               SubSeq(res.body, res.bodyReadOffset + 1, res.bodyReadOffset + pLen),
               <<>>, FALSE)
  ELSE ReadRet([res EXCEPT !.bodyReadOffset = @ + sLen], rb, sLen, EOF,
               SubSeq(res.body, res.bodyReadOffset + 1, res.bodyReadOffset + sLen),
               <<>>, FALSE)

\* Lines 236-253: Read(p), len(p) = pLen, of a Result that holds its body.
ReadBuffered(res, rb, pLen) ==
  LET sLen == Len(res.body) - res.bodyReadOffset IN
  IF sLen = 0 THEN ReadRet(res, rb, 0, EOF, <<>>, <<>>, FALSE)
  ELSE IF sLen > pLen
  THEN ReadRet([res EXCEPT !.bodyReadOffset = @ + pLen], rb, pLen, NilErr,
               SubSeq(res.body, res.bodyReadOffset + 1, res.bodyReadOffset + pLen),
               <<>>, FALSE)
  ELSE ReadRet([res EXCEPT !.bodyReadOffset = @ + sLen], rb, sLen, EOF,
               SubSeq(res.body, res.bodyReadOffset + 1, res.bodyReadOffset + sLen),
               <<>>, FALSE)

\* Lines 255-272: Read(p) of a Result of a response, whose Body.Read returns out.
\* It panics when res.event.ResponseRead is called on a nil event.
ReadLive(res, rb, out) ==
  IF ~res.response THEN ReadRet(res, rb, 0, EOF, <<>>, <<>>, FALSE)
  ELSE LET data == SubSeq(rb.rest, 1, out.n)
           rb2 == [rest |-> Drop(rb.rest, out.n), eof |-> (out.err = EOF),
                   closed |-> rb.closed]
           read == IF out.n > 0 THEN <<Cb("ResponseRead", NilErr)>> ELSE <<>>
       IN
       IF out.n > 0 /\ res.event = "nil"
       THEN ReadRet(res, rb2, 0, NilErr, <<>>, <<>>, TRUE)
       ELSE IF out.err = EOF
       THEN ReadRet(res, rb2, out.n, out.err, data,
                    read \o (IF res.event # "nil" THEN <<Cb("ResponseFinish", NilErr)>>
                             ELSE <<>>), FALSE)
       ELSE ReadRet([res EXCEPT !.err = out.err], rb2, out.n, out.err, data,
                    read \o (IF res.event # "nil" THEN <<Cb("ResponseFinish", out.err)>>
                             ELSE <<>>), FALSE)

\* Read without lines 233-235: the error stored is not looked at.
RestResultReadThrough(res, rb, pLen, out) ==
  IF res.bodyReadOffset >= 0 THEN ReadBuffered(res, rb, pLen)
  ELSE ReadLive(res, rb, out)

\* Read(p) with len(p) = pLen; out is what Body.Read returns when it is reached.
RestResultRead(res, rb, pLen, out) ==
  IF res.err # NilErr THEN ReadRet(res, rb, 0, res.err, <<>>, <<>>, FALSE)
  ELSE IF res.bodyReadOffset >= 0 THEN ReadBuffered(res, rb, pLen)
  ELSE ReadLive(res, rb, out)

\* --------------------------------------------------- RestResult.JsonResult

\* The free room of the buffer ioutil.ReadAll passes to each Read.
ReadAllBuf == 2

\* ioutil.ReadAll(res): every way its Reads may go, each with the bytes
\* collected (data), the error it returns (nil at io.EOF) and the callbacks fired.
RECURSIVE ReadAllRuns(_, _, _, _)
ReadAllRuns(res, rb, acc, fired) ==
  LET outs == IF ReadsBody(res) THEN BodyReadOutcomes(rb, ReadAllBuf) ELSE {NoOutcome}
      end(r, err) == [res |-> r.res, rb |-> r.rb, data |-> acc \o r.data, err |-> err,
                      fired |-> fired \o r.fired, panic |-> r.panic]
  IN UNION { LET r == RestResultRead(res, rb, ReadAllBuf, o) IN
             IF r.panic THEN {end(r, NilErr)}
             ELSE IF r.err = NilErr
             THEN ReadAllRuns(r.res, r.rb, acc \o r.data, fired \o r.fired)
             ELSE IF r.err = EOF THEN {end(r, NilErr)}
             ELSE {end(r, r.err)} : o \in outs }

\* gjson.Get(body, "result." + key).String(): the first such member, or "".
RECURSIVE Get(_, _)
Get(body, key) ==
  IF body = <<>> THEN ""
  ELSE IF Head(body).k = key THEN Head(body).v
  ELSE Get(Tail(body), key)

\* A check that fails a body only for a code or state that is there and differs.
CheckJsonResultLenient(body) ==
  LET code == Get(body, "code")
      state == Get(body, "state")
      msg == Get(body, "message")
  IN IF (code # "" \/ state # "") /\ (code # "200" \/ state # "ok")
     THEN NewAppClientError(code, state,
            <<Lit("server return fail:")>> \o (IF msg = "" THEN body ELSE <<Lit(msg)>>))
     ELSE NilErr

\* A check that fails a body only when both the code and the state differ.
CheckJsonResultBoth(body) ==
  LET code == Get(body, "code")
      state == Get(body, "state")
      msg == Get(body, "message")
  IN IF code # "200" /\ state # "ok"
     THEN NewAppClientError(code, state,
            <<Lit("server return fail:")>> \o (IF msg = "" THEN body ELSE <<Lit(msg)>>))
     ELSE NilErr

\* AppRestBuild.CheckJsonResult
CheckJsonResult(body) ==
  LET code == Get(body, "code")
      state == Get(body, "state")
      msg == Get(body, "message")
  IN IF code # "200" \/ state # "ok"
     THEN NewAppClientError(code, Get(body, "state"),
            <<Lit("server return fail:")>> \o (IF msg = "" THEN body ELSE <<Lit(msg)>>))
     ELSE NilErr

\* ResponseCheck fired at the end of JsonResult only, not deferred: the early
\* returns with an error skip it.
JsonResultCheckAtEnd(res) ==
  IF res.event # "nil" /\ res.err = NilErr THEN <<Cb("ResponseCheck", res.err)>>
  ELSE <<>>

\* Lines 283-287: the deferred function of JsonResult, run as it returns.
JsonResultDeferred(res) ==
  IF res.event # "nil" THEN <<Cb("ResponseCheck", res.err)>> ELSE <<>>

\* JsonResult(), its ReadAll going as run: the Result and body afterwards, the
\* JsonResult returned (its error and body) and the callbacks fired; the deferred
\* function fires ResponseCheck last, also when ReadAll panics.
RestResultJsonResult(res, rb, run) ==
  LET ret(r, b, err, data, fired, panic) ==
        [res |-> r, rb |-> b, err |-> err, data |-> data, panic |-> panic,
         fired |-> fired \o JsonResultDeferred(r)]
  IN
  IF res.err # NilErr THEN ret(res, rb, res.err, <<>>, <<>>, FALSE)
  ELSE IF run.panic THEN ret(run.res, run.rb, NilErr, <<>>, run.fired, TRUE)
  ELSE IF run.err # NilErr THEN ret(run.res, run.rb, run.res.err, <<>>, run.fired, FALSE)
  ELSE IF run.res.build = "app"
  THEN LET checked == [run.res EXCEPT !.err = CheckJsonResult(run.data)] IN
       IF checked.err # NilErr
       THEN ret(checked, run.rb, checked.err, <<>>, run.fired, FALSE)
       ELSE ret(checked, run.rb, NilErr, run.data, run.fired, FALSE)
  ELSE ret(run.res, run.rb, NilErr, run.data, run.fired, FALSE)

\* ------------------------------------------------------------- the caller

\* The caller holds the Result: it received it from rc, or made it itself.
Holds(c) == cons[c].recvd > 0 \/ call[c].pc = "direct"

\* <-rc: the Result, or the closed channel; blocks while rc is empty and open.
Recv(c) ==
  /\ call[c].pc \notin {"idle", "direct", "signed"}
  /\ ~cons[c].sawClosed
  /\ IF chan[c].buf > 0
     THEN /\ chan' = [chan EXCEPT ![c].buf = @ - 1]
          /\ cons' = [cons EXCEPT ![c].recvd = @ + 1]
     ELSE /\ chan[c].closed
          /\ cons' = [cons EXCEPT ![c].sawClosed = TRUE]
          /\ UNCHANGED chan
  /\ UNCHANGED <<transport, origTimeout, call, result, respBody, events>>

\* The caller makes a Result of a body it has read already.
NewBody(c) ==
  /\ call[c].pc = "idle"
  /\ \E build \in {"nil", "app"}, body \in Bodies, response \in BOOLEAN,
        event \in {"nil", "event"} :
       LET made == NewRestBodyResult(build, body, response, event) IN
       /\ result' = [result EXCEPT ![c] = made.result]
       /\ events' = [events EXCEPT ![c] = made.fired]
  /\ call' = [call EXCEPT ![c].pc = "direct"]
  /\ UNCHANGED <<transport, origTimeout, chan, respBody, cons>>

\* The caller makes a Result of a response (or of none) it got itself.
NewLive(c) ==
  /\ call[c].pc = "idle"
  /\ \E build \in {"nil", "app"}, body \in Bodies, response \in BOOLEAN,
        event \in {"nil", "event"} :
       LET made == NewRestResult(build, response, event) IN
       /\ result' = [result EXCEPT ![c] = made.result]
       /\ events' = [events EXCEPT ![c] = made.fired]
       /\ respBody' = [respBody EXCEPT ![c] =
                         IF response THEN [rest |-> body, eof |-> FALSE, closed |-> FALSE] ELSE NoBody]
  /\ call' = [call EXCEPT ![c].pc = "direct"]
  /\ UNCHANGED <<transport, origTimeout, chan, cons>>

\* The caller signs parameters itself, with AppRestParamSign.
ParamSign(c) ==
  /\ call[c].pc = "idle"
  /\ \E a \in SignArgs : call' = [call EXCEPT ![c].pc = "signed", ![c].sign = SignCall(a)]
  /\ UNCHANGED <<transport, origTimeout, chan, result, respBody, events, cons>>

\* res.Read(p)
Read(c) ==
  /\ Holds(c) /\ ~cons[c].panicked /\ cons[c].ops < MaxOps
  /\ \E pLen \in 0..MaxBuf :
     \E out \in (IF ReadsBody(result[c]) THEN BodyReadOutcomes(respBody[c], pLen)
                 ELSE {NoOutcome}) :
       LET r == RestResultRead(result[c], respBody[c], pLen, out) IN
       /\ result' = [result EXCEPT ![c] = r.res]
       /\ respBody' = [respBody EXCEPT ![c] = r.rb]
       /\ events' = [events EXCEPT ![c] = @ \o r.fired]
       /\ cons' = [cons EXCEPT ![c].ops = @ + 1, ![c].acc = @ \o r.data,
                     ![c].panicked = r.panic,
                     ![c].last = [op |-> "Read", n |-> r.n, err |-> r.err,
                                  data |-> r.data]]
  /\ UNCHANGED <<transport, origTimeout, call, chan>>

\* res.JsonResult()
JsonResult(c) ==
  /\ Holds(c) /\ ~cons[c].panicked /\ cons[c].ops < MaxOps
  /\ \E run \in ReadAllRuns(result[c], respBody[c], <<>>, <<>>) :
       LET r == RestResultJsonResult(result[c], respBody[c], run) IN
       /\ result' = [result EXCEPT ![c] = r.res]
       /\ respBody' = [respBody EXCEPT ![c] = r.rb]
       /\ events' = [events EXCEPT ![c] = @ \o r.fired]
       /\ cons' = [cons EXCEPT ![c].ops = @ + 1, ![c].jsons = @ + 1,
                     ![c].acc = IF result[c].err = NilErr THEN @ \o run.data ELSE @,
                     ![c].panicked = r.panic,
                     ![c].last = [op |-> "JsonResult", n |-> Len(r.data), err |-> r.err,
                                  data |-> r.data]]
  /\ UNCHANGED <<transport, origTimeout, call, chan>>

\* The caller is done with the call and its Result.
Forget(c) ==
  /\ call[c].pc \in {"done", "direct", "signed"}
  /\ call' = [call EXCEPT ![c] = IdleCall]
  /\ chan' = [chan EXCEPT ![c] = EmptyChan]
  /\ result' = [result EXCEPT ![c] = NoResult]
  /\ respBody' = [respBody EXCEPT ![c] = NoBody]
  /\ events' = [events EXCEPT ![c] = <<>>]
  /\ cons' = [cons EXCEPT ![c] = IdleCons]
  /\ UNCHANGED <<transport, origTimeout>>

\* ----------------------------------------------------------- specifications

\* No other call is under way: the caller makes its calls one after the other.
Alone(c) == \A d \in Calls \ {c} : call[d].pc = "idle"

\* One call at a time, from Do to the caller's reads of its Result.
Next ==
  \E c \in Calls :
    \/ Alone(c) /\ DoConfigBuildsErr(c)
    \/ Alone(c) /\ DoNotFound(c)
    \/ Alone(c) /\ DoSpawn(c)
    \/ Alone(c) /\ BuildResolve(c)
    \/ Alone(c) /\ BuildPrepare(c)
    \/ Alone(c) /\ BuildIssue(c)
    \/ Alone(c) /\ BuildFinish(c)
    \/ Alone(c) /\ BuildPanic(c)
    \/ Alone(c) /\ Send(c)
    \/ Alone(c) /\ Close(c)
    \/ Alone(c) /\ RecoverSend(c)
    \/ Alone(c) /\ RecoverClose(c)
    \/ Alone(c) /\ Recv(c)
    \/ Alone(c) /\ NewBody(c)
    \/ Alone(c) /\ NewLive(c)
    \/ Alone(c) /\ ParamSign(c)
    \/ Alone(c) /\ Read(c)
    \/ Alone(c) /\ JsonResult(c)
    \/ Alone(c) /\ Forget(c)

Spec == Init /\ [][Next]_vars

\* One step of the dispatch of call c, up to the delivery of its Result.
Dispatch(c) ==
  \/ DoConfigBuildsErr(c) \/ DoNotFound(c) \/ DoSpawn(c)
  \/ BuildResolve(c) \/ BuildPrepare(c) \/ BuildIssue(c) \/ BuildFinish(c)
  \/ BuildPanic(c) \/ Send(c) \/ Close(c) \/ RecoverSend(c) \/ RecoverClose(c)

\* Calls made concurrently on the one transport.
NextConcurrent == \E c \in Calls : Dispatch(c)

SpecConcurrent == Init /\ [][NextConcurrent]_vars

\* A step of the goroutine of call c after BuildRequest: the send or the close.
GoroutineStep(c) ==
  Alone(c) /\ (Send(c) \/ Close(c) \/ RecoverSend(c) \/ RecoverClose(c))

\* Spec with a scheduler that runs a goroutine that can run; the caller is under
\* no obligation to receive, read or call again.
SpecFair == Spec /\ \A c \in Calls : WF_vars(GoroutineStep(c))

\* ------------------------------------------------------------------ claims

\* The callbacks named name among those delivered to the event of call c.
Fired(c, name) == {i \in DOMAIN events[c] : events[c][i].cb = name}

\* C1: once Do and the goroutine it started have finished, the channel has been
\* sent exactly one Result and is closed, whatever path Do took.
C1_DeliverOnce ==
  \A c \in Calls : call[c].pc = "done" => chan[c].sent = 1 /\ chan[c].closed

\* The Result of call c wraps a live response and has an observer.
LiveObserved(c) ==
  result[c].response /\ result[c].bodyReadOffset = -1 /\ result[c].event # "nil"

\* A Read of the live body of call c reached its end or failed.
BodyEnded(c) == respBody[c].eof \/ result[c].err = ExtErr("body read")

\* C2: for a Result of a live response, ResponseFinish has fired once if a Read
\* reached the end of the body or failed, and not at all before that.
C2_FinishExactlyOnce ==
  \A c \in Calls :
    LiveObserved(c) =>
      Cardinality(Fired(c, "ResponseFinish")) = (IF BodyEnded(c) THEN 1 ELSE 0)

Rank(name) ==
  CASE name = "RequestStart" -> 0
    [] name = "RequestRead" -> 1
    [] name = "ResponseHeader" -> 2
    [] name = "ResponseRead" -> 3
    [] name = "ResponseFinish" -> 4
    [] name = "ResponseCheck" -> 5

\* C3: the callbacks of the Event made for a call come in the order RequestStart,
\* RequestRead*, ResponseHeader, ResponseRead*, ResponseFinish, ResponseCheck: none
\* comes after one of a later phase, and ResponseFinish comes after a RequestStart.
C3_CallbackOrder ==
  \A c \in Calls :
    (call[c].route = "spawned"
       /\ call[c].input \notin {"configName", "notRegistered", "wrongType"}) =>
      /\ \A i, j \in DOMAIN events[c] :
           i < j => Rank(events[c][i].cb) <= Rank(events[c][j].cb)
      /\ \A i \in Fired(c, "ResponseFinish") :
           \E j \in Fired(c, "RequestStart") : j < i

\* BuildRequest of call c is under way.
InFlight(c) == call[c].pc \in {"b1", "b2", "b3", "b4"}

\* C4: when no BuildRequest is under way, the transport's ResponseHeaderTimeout
\* is what it was before the first call.
C4_TimeoutRestored ==
  (\A c \in Calls : ~InFlight(c)) => transport = origTimeout

\* The timeout call c is to run under: its override, or the transport's own.
EffectiveTimeout(c) == IF call[c].Timeout > 0 THEN call[c].Timeout ELSE origTimeout

\* C5: every request is issued while ResponseHeaderTimeout is the effective
\* timeout of its own call.
C5_IssuedUnderOwnTimeout ==
  \A c \in Calls : call[c].pc = "b4" => call[c].issued = EffectiveTimeout(c)

\* C6: a panic of BuildRequest stays in the goroutine, whose deferred function
\* sends one Result, with the error of code "3", and closes the channel.
C6_FaultContained ==
  \A c \in Calls :
    call[c].panicked =>
      /\ call[c].pc \in {"rsend", "rclose", "done"}
      /\ call[c].pc \in {"rclose", "done"} =>
           /\ chan[c].sent = 1
           /\ result[c].err # NilErr
           /\ result[c].err = NewRestClientError("3", "panic")
      /\ call[c].pc = "done" => chan[c].closed

C6_Witness ==
  \E c \in Calls :
    /\ call[c].panicked /\ call[c].pc = "done" /\ cons[c].recvd = 1
    /\ result[c].err.Code = "3"

\* C7: for a key that is not in the table, Do itself sends the error of code "2"
\* and closes the channel: no goroutine, no BuildRequest, no request, no callback.
C7_UnknownOperation ==
  \A c \in Calls :
    call[c].route = "notFound" =>
      /\ call[c].pc = "done"
      /\ chan[c].sent = 1 /\ chan[c].closed
      /\ result[c].err = NewRestClientError("2", "not find rest api")
      /\ call[c].issued = -1 /\ ~call[c].wrote
      /\ call[c].input = "" /\ ~call[c].panicked
      /\ events[c] = <<>>

C7_Witness ==
  \E c \in Calls :
    call[c].route = "notFound" /\ cons[c].recvd = 1 /\ cons[c].sawClosed

\* C8: Reads of a Result made of a body go forward only: the offset stays in
\* 0..len(body), the bytes returned so far are body[0:offset], and a Read returns
\* io.EOF exactly when it leaves the offset at len(body), having returned the rest.
C8_BufferedForwardOnly ==
  \A c \in Calls :
    (call[c].pc = "direct" /\ result[c].bodyReadOffset >= 0 /\ result[c].err = NilErr) =>
      LET off == result[c].bodyReadOffset
          body == result[c].body
          last == cons[c].last
      IN /\ off \in 0..Len(body)
         /\ cons[c].acc = SubSeq(body, 1, off)
         /\ last.op = "Read" =>
              /\ (last.err = EOF) <=> (off = Len(body))
              /\ last.err \in {NilErr, EOF}
              /\ last.n = Len(last.data)
              /\ last.data = SubSeq(body, off - last.n + 1, off)

C8_Witness ==
  \E c \in Calls :
    /\ call[c].pc = "direct" /\ result[c].bodyReadOffset = 3 /\ Len(result[c].body) = 3
    /\ cons[c].ops = 2 /\ cons[c].jsons = 0
    /\ cons[c].last.op = "Read" /\ cons[c].last.err = EOF /\ cons[c].last.n = 1
    /\ cons[c].acc = result[c].body

PreflightInputs == {"configName", "notRegistered", "wrongType", "marshal", "token"}

\* The error BuildRequest is to report for a failing input.
PreflightErr(input) ==
  CASE input = "configName" -> ExtErr("config name")
    [] input = "notRegistered" -> NewRestClientError("1", "rest config is exits:missing")
    [] input = "wrongType" -> NewRestClientError("11", "build config is wrong")
    [] input = "marshal" -> ExtErr("json marshal")
    [] input = "token" -> ExtErr("token")

\* C10: when the config cannot be resolved, the parameters not serialized or the
\* token not fetched, BuildRequest returns a Result of that error, not a panic,
\* with no RequestStart fired, no request issued and the transport not written.
C10_PreflightNoIO ==
  \A c \in Calls :
    call[c].input \in PreflightInputs =>
      /\ call[c].pc \in {"send", "close", "done"}
      /\ ~call[c].panicked
      /\ result[c].err = PreflightErr(call[c].input)
      /\ Fired(c, "RequestStart") = {}
      /\ call[c].issued = -1
      /\ ~call[c].wrote /\ transport = origTimeout

C10_Witness ==
  \E c \in Calls :
    /\ call[c].input = "notRegistered" /\ call[c].pc = "done" /\ cons[c].recvd = 1
    /\ result[c].err.Code = "1" /\ events[c] = <<Cb("ResponseFinish", result[c].err)>>

\* The Result of call c wraps a live response, which Read reads from.
Live(c) == result[c].response /\ result[c].bodyReadOffset = -1

\* C11: the body of a live response has been closed by the time a Read of its
\* Result returned io.EOF or an error, and by the time JsonResult returned.
C11_BodyReleased ==
  \A c \in Calls :
    (Live(c) /\ ~cons[c].panicked
       /\ (BodyEnded(c) \/ cons[c].last.op = "JsonResult")) =>
      respBody[c].closed

\* The goroutine of call c is at a send on rc.
AtSend(c) == call[c].pc \in {"send", "rsend"}

\* rc has one slot and is sent at most one Result; a send of the goroutine finds
\* the slot free and rc open; BuildRequest runs after Do returned rc, unsent.
C12_SlotFree ==
  \A c \in Calls :
    /\ chan[c].cap = 1 /\ chan[c].buf <= chan[c].cap /\ chan[c].sent <= 1
    /\ AtSend(c) => chan[c].buf < chan[c].cap /\ chan[c].sent = 0 /\ ~chan[c].closed
    /\ call[c].pc \in {"close", "rclose"} => chan[c].sent = 1 /\ ~chan[c].closed
    /\ InFlight(c) => call[c].route = "spawned" /\ chan[c].sent = 0
    /\ (call[c].pc = "done" /\ call[c].route = "spawned") =>
         chan[c].sent = 1 /\ chan[c].closed

\* C12: no send on rc blocks, as rc has one slot and is sent at most one Result;
\* Do returns rc without waiting for BuildRequest; and once BuildRequest returned
\* or panicked the goroutine runs to its end, whether or not the caller receives.
C12_NeverBlocks ==
  /\ []C12_SlotFree
  /\ \A c \in Calls : AtSend(c) ~> (call[c].pc = "done")

\* The goroutine ended though the caller did not receive.
C12_Witness ==
  \E c \in Calls :
    /\ call[c].pc = "done" /\ call[c].route = "spawned"
    /\ cons[c].recvd = 0 /\ chan[c].buf = 1 /\ chan[c].closed

\* JsonResult was the first call on the Result of call c, whose build checks the
\* body, and its ReadAll read the whole body, which is cons[c].acc.
CheckedWhole(c) ==
  /\ Holds(c) /\ result[c].build = "app" /\ ~cons[c].panicked
  /\ cons[c].ops = 1 /\ cons[c].jsons = 1
  /\ IF result[c].bodyReadOffset >= 0
     THEN result[c].bodyReadOffset = Len(result[c].body) /\ cons[c].acc = result[c].body
     ELSE respBody[c].eof \/ ~result[c].response

\* The body has neither result.code nor result.state.
NoMarker(body) == Get(body, "code") = "" /\ Get(body, "state") = ""

\* C13 as claimed: for a body with no result.code and no result.state,
\* CheckJsonResult returns nil, so that JsonResult succeeds.
C13_AbsentMarkerPasses ==
  \A c \in Calls :
    (CheckedWhole(c) /\ NoMarker(cons[c].acc)) =>
      cons[c].last.err = NilErr /\ result[c].err = NilErr

\* C13, amended: a body with no result.code and no result.state fails the check
\* like any body whose code is not "200" or whose state is not "ok": the error has
\* the empty Code and SubCode and its message is the result.message, or the whole
\* body when there is none.
C13_AbsentMarkerFails ==
  \A c \in Calls :
    (CheckedWhole(c) /\ NoMarker(cons[c].acc)) =>
      LET body == cons[c].acc
          msg == Get(body, "message")
      IN /\ cons[c].last.err =
              NewAppClientError("", "", <<Lit("server return fail:")>>
                                  \o (IF msg = "" THEN body ELSE <<Lit(msg)>>))
         /\ result[c].err = cons[c].last.err
         /\ cons[c].last.data = <<>>

C13_Witness ==
  \E c \in Calls :
    /\ CheckedWhole(c) /\ cons[c].acc = <<Tok("data", "x")>>
    /\ Live(c) /\ cons[c].recvd = 1
    /\ cons[c].last.err.type = "AppClientError" /\ cons[c].last.err.Code = ""

\* C14: CheckJsonResult returns nil exactly for a body whose result.code is "200"
\* and whose result.state is "ok"; for any other it returns an AppClientError of
\* that code and state (SubCode) whose message has the result.message in it; and
\* JsonResult on a Result of that body returns that verdict and leaves it in Err().
C14_EnvelopeVerdict ==
  \A c \in Calls :
    CheckedWhole(c) =>
      LET body == cons[c].acc
          e == cons[c].last.err
          msg == Get(body, "message")
      IN /\ e = CheckJsonResult(body)
         /\ (e = NilErr) <=> (Get(body, "code") = "200" /\ Get(body, "state") = "ok")
         /\ e # NilErr =>
              /\ e.type = "AppClientError"
              /\ e.Code = Get(body, "code") /\ e.SubCode = Get(body, "state")
              /\ msg # "" => \E i \in DOMAIN e.Msg : e.Msg[i] = Lit(msg)
              /\ cons[c].last.data = <<>>
         /\ e = NilErr => cons[c].last.data = body
         /\ result[c].err = e

C14_Witness ==
  \E c \in Calls :
    /\ CheckedWhole(c) /\ Live(c) /\ cons[c].recvd = 1
    /\ cons[c].last.err.Code = "500" /\ cons[c].last.err.SubCode = "fail"
    /\ cons[c].last.err.Msg = <<Lit("server return fail:"), Lit("bad id")>>
    /\ result[c].err = cons[c].last.err

\* AppRestParamSign was called for call c, by BuildRequest or by the caller.
Signed(c) == call[c].sign # NoSign

\* The digest of the fields m, encoded in key order, with the secret after them.
DigestOf(m, appSecret) == Md5Hex(Encode(m) \o appSecret)

\* C15 as claimed: AppRestParamSign signs the fields, of app, version, timestamp,
\* content, method and token, that are not empty, and no field that is empty.
C15_SignsNonEmpty ==
  \A c \in Calls :
    Signed(c) =>
      LET a == call[c].sign.args IN
      call[c].sign.out =
        DigestOf(SignedParamsNonEmpty(a.version, a.appKey, a.method, a.timestamp,
                                      a.content, a.token), a.appSecret)

\* C15, amended: AppRestParamSign signs app, version, timestamp and content
\* whatever they are, also when empty, method when it is not empty, and token
\* when one is given (not nil), also when it is the empty string.
C15_SignsGiven ==
  \A c \in Calls :
    Signed(c) =>
      LET a == call[c].sign.args
          keys == {"app", "version", "timestamp", "content"}
                    \cup {k \in {"method"} : a.method # ""}
                    \cup {k \in {"token"} : a.token.set}
      IN call[c].sign.out =
           DigestOf(ParamMap(keys, a.version, a.appKey, a.method, a.timestamp,
                             a.content, a.token), a.appSecret)

\* A call with an empty method and a token that is given and empty.
C15_Witness ==
  \E c \in Calls :
    /\ call[c].pc = "signed"
    /\ call[c].sign.args.method = "" /\ call[c].sign.args.token = TokenOf("")
    /\ call[c].sign.args.appKey = "hjx"
    /\ call[c].sign.out =
         "md5(app=hjx&content=%7B%7D&timestamp=2006-01-02+15%3A04%3A05&token=&version=1.0key)"

\* C19: the fields of a request BuildRequest issues, but for sign, are the fields
\* AppRestParamSign signed for it, each with the value signed: a field is sent
\* exactly if it was signed, and sign is the digest AppRestParamSign returned.
C19_SentAsSigned ==
  \A c \in Calls :
    call[c].pc \in {"b3", "b4"} =>
      LET a == call[c].sign.args
          sent == call[c].wire
          signed == SignedParams(a.version, a.appKey, a.method, a.timestamp,
                                 a.content, a.token)
      IN /\ Signed(c)
         /\ DOMAIN sent = DOMAIN signed \cup {"sign"}
         /\ \A k \in DOMAIN signed : sent[k] = signed[k]
         /\ sent["sign"] = call[c].sign.out
         /\ sent["sign"] = DigestOf(signed, a.appSecret)

\* A request issued with an empty token and no method.
C19_Witness ==
  \E c \in Calls :
    /\ call[c].pc = "b4" /\ call[c].issued >= 0
    /\ DOMAIN call[c].wire = {"app", "version", "timestamp", "content", "sign", "token"}
    /\ call[c].wire["token"] = "" /\ call[c].wire["app"] = "hjx"
    /\ call[c].wire["sign"] =
         "md5(app=hjx&content=%7B%7D&timestamp=2006-01-02+15%3A04%3A05&token=&version=1.0key)"

\* The step is a Read of the Result of call c.
ReadStep(c) == cons'[c].ops = cons[c].ops + 1 /\ cons'[c].jsons = cons[c].jsons

\* C16: a Read of a live Result that fails with an error other than io.EOF
\* leaves the error in Err(); from then on the error stays, the body is not read
\* again, and every Read returns no bytes and that error and fires no callback.
C16_StickyError ==
  [][\A c \in Calls :
       /\ (ReadStep(c) /\ Live(c) /\ cons'[c].last.err \notin {NilErr, EOF}
             /\ ~cons'[c].panicked) =>
            result'[c].err = cons'[c].last.err
       /\ (Live(c) /\ result[c].err = ExtErr("body read")
             /\ call'[c].pc = call[c].pc) =>
            /\ result'[c].err = result[c].err
            /\ respBody'[c] = respBody[c]
            /\ ReadStep(c) =>
                 /\ cons'[c].last.n = 0 /\ cons'[c].last.data = <<>>
                 /\ cons'[c].last.err = result[c].err
                 /\ events'[c] = events[c]
                 /\ ~cons'[c].panicked]_vars

\* A Read after the one that failed, of a body that had bytes left.
C16_Witness ==
  \E c \in Calls :
    /\ Live(c) /\ cons[c].recvd = 1 /\ result[c].err = ExtErr("body read")
    /\ cons[c].ops = 3 /\ cons[c].jsons = 0
    /\ cons[c].last.op = "Read" /\ cons[c].last.n = 0
    /\ cons[c].last.err = ExtErr("body read")
    /\ respBody[c].rest # <<>>
    /\ Cardinality(Fired(c, "ResponseFinish")) = 1

\* C17: when http.NewRequest fails, BuildRequest returns an error Result of that
\* error and the event gets RequestStart and then ResponseFinish with it, for GET
\* and POST, with and without a request id, and never by way of a panic.
C17_ConstructionError ==
  \A c \in Calls :
    call[c].input = "newRequest" =>
      /\ ~call[c].panicked
      /\ call[c].pc \in {"send", "close", "done"}
      /\ result[c].err = ExtErr("new request")
      /\ events[c] = <<Cb("RequestStart", NilErr),
                       Cb("ResponseFinish", ExtErr("new request"))>>

\* C18: a Read of a Result made by NewRestResult of a live response with a nil
\* event does not panic, also when it returns bytes.
C18_ReadWithoutEvent ==
  \A c \in Calls :
    (Live(c) /\ call[c].pc = "direct" /\ result[c].event = "nil"
       /\ cons[c].last.op = "Read") =>
      ~cons[c].panicked

\* C20: once JsonResult has returned success, Err() being nil, a later Read or
\* JsonResult of the same Result leaves Err() nil, and a later JsonResult returns
\* success again.
C20_VerdictStable ==
  [][\A c \in Calls :
       (Holds(c) /\ cons[c].last.op = "JsonResult" /\ cons[c].last.err = NilErr
          /\ result[c].err = NilErr /\ ~cons[c].panicked
          /\ cons'[c].ops = cons[c].ops + 1) =>
         /\ result'[c].err = NilErr
         /\ cons'[c].last.op = "JsonResult" => cons'[c].last.err = NilErr]_vars
====
